---- MODULE Spec2Model ----
(***************************************************************************)
(* Local/cloud receipt synchronisation of the receipt scanner.             *)
(*                                                                         *)
(* The model covers the local store (IndexedDB, DBService), the remote     *)
(* store (Firestore, FirebaseService), the in-memory receipt list of       *)
(* AppContent, the pending-deletion queue kept in localStorage, the        *)
(* reconciliation pass FirebaseService.syncLocalReceipts and the handlers  *)
(* that call them.                                                         *)
(*                                                                         *)
(* Three specifications are defined over the same variables and actions:   *)
(*   SpecEngine  the reconciliation pass applied to the records of the     *)
(*               local store, from every bounded pair of local and remote  *)
(*               record sets;                                              *)
(*   SpecDevices the reconciliation passes of two devices of one user      *)
(*               against the one remote store;                             *)
(*   Spec        the application: sign-in, app load, create / update /     *)
(*               delete, manual sync, force upload / download, drain.      *)
(***************************************************************************)
EXTENDS Integers, Sequences, FiniteSets, TLC

(***************************************************************************)
(* Bounds and value sets                                                   *)
(***************************************************************************)
Ids == {"A", "B", "C"}
Users == {"u1"}
NoUser == "nobody"
Triggers == {"manual", "auto"}
\* the calls of syncLocalReceipts the model follows: one per trigger on this
\* device and one on another device of the same user
Slots == Triggers \cup {"peer"}

\* updatedAt values of the records that exist when the model starts
ScenarioTimes == {1, 5, 10}
\* the clock starts at the greatest of them: stored timestamps are in the past
StartTime == CHOOSE t \in ScenarioTimes : \A u \in ScenarioTimes : u <= t
\* number of events (user actions, network changes, clock ticks, calls of
\* the engine) a behaviour may take
MaxEvents == 3

(***************************************************************************)
(* Partial maps keyed by identifier (object store / collection / Map)      *)
(***************************************************************************)
EmptyMap == [x \in {} |-> x]
Put(m, k, v) == [x \in (DOMAIN m) \cup {k} |-> IF x = k THEN v ELSE m[x]]
Del(m, k) == [x \in (DOMAIN m) \ {k} |-> m[x]]

\* the identifiers of a set in key order, as the sequence getAll() returns
IdOrder == <<"A", "B", "C">>
KeySeq(S) == SelectSeq(IdOrder, LAMBDA x : x \in S)

(***************************************************************************)
(* Records.  A receipt is                                                  *)
(*   id, updatedAt (ms), core (storeName/date/total/currency/taxAmount/    *)
(*   createdAt taken together), extra (items/notes/tags/merchant fields    *)
(*   taken together; "undef" when the optional fields are missing),        *)
(*   imageData, additionalImages, userId (only on copies read from the     *)
(*   remote store).                                                        *)
(***************************************************************************)
Receipt(id, t, core, extra, img, addl, uid) ==
  [id |-> id, updatedAt |-> t, core |-> core, extra |-> extra,
   imageData |-> img, additionalImages |-> addl, userId |-> uid]

\* Timestamp.fromDate / Timestamp.toDate of the Firestore SDK
TimestampFromDate(ms) ==
  [seconds |-> ms \div 1000, nanoseconds |-> (ms % 1000) * 1000000]
TimestampToDate(ts) == ts.seconds * 1000 + (ts.nanoseconds \div 1000000)

\* convertDates(receipt, true): bookkeeping dates become Timestamps
convertDatesTo(r) == [r EXCEPT !.updatedAt = TimestampFromDate(r.updatedAt)]
\* convertDates(doc, false): Timestamps become Dates again
convertDatesFrom(d) == [d EXCEPT !.updatedAt = TimestampToDate(d.updatedAt)]

\* cleanReceiptForFirestore: missing optional fields become explicit
\* empty values and the owner is stamped
cleanReceiptForFirestore(r, uid) ==
  [r EXCEPT !.extra = IF r.extra = "undef" THEN "" ELSE r.extra,
            !.userId = uid]

\* prepareImageForFirestore: an image over the size ceiling is re-encoded;
\* when it cannot be decoded (img.onerror) the original is returned
prepareImageForFirestore(img, decodes) ==
  IF img = "big" THEN (IF decodes THEN "packed" ELSE "big") ELSE img

prepareAll(imgs, decodes) ==
  [k \in DOMAIN imgs |-> prepareImageForFirestore(imgs[k], decodes)]

uuidv4 == "C"
\* a faulty variant: an identifier is generated for every receipt
saveReceiptIdAlwaysFresh(r) == uuidv4
\* saveReceipt generates an identifier only for a receipt that has none
saveReceiptId(r) == IF r.id = "" THEN uuidv4 ELSE r.id

\* the document saveReceipt hands to setDoc
saveReceiptDoc(r, uid, decodes) ==
  convertDatesTo(cleanReceiptForFirestore(
    [r EXCEPT !.imageData = prepareImageForFirestore(r.imageData, decodes),
              !.additionalImages = prepareAll(r.additionalImages, decodes)],
    uid))

\* a faulty variant: the stamp is the epoch instead of the clock
updateReceiptStampEpoch(r, t) == 0
\* updateReceipt stamps the receipt with the clock, receipt.updatedAt = new
\* Date(), whatever updatedAt it was given with
updateReceiptStamp(r, t) == t
\* the document updateReceipt hands to updateDoc
updateReceiptDoc(r, uid, t) ==
  convertDatesTo(cleanReceiptForFirestore(
    [r EXCEPT !.updatedAt = updateReceiptStamp(r, t)], uid))

\* the minimal receipt of the retry in syncLocalReceipts
minimalReceipt(r) ==
  [r EXCEPT !.extra = "", !.imageData = "", !.additionalImages = <<>>]

VARIABLES
  now,               \* the last reading of the wall clock (new Date()), ms
  currentUser,       \* auth.currentUser: a user or NoUser
  online,            \* whether Firestore is reachable
  localDB,           \* IndexedDB object store 'receipts': id -> receipt
  receipts,          \* AppContent's in-memory list: id -> receipt
  cloud,             \* Firestore collection 'receipts': id -> document
  pendingDeletions,  \* localStorage 'pendingDeletions': sequence of ids
  pass,              \* the syncLocalReceipts call in flight, per slot
  op,                \* the create / update / delete handler in flight
  drain,             \* the processPendingDeletions call in flight
  due,               \* the load effect and the auto-sync timer still to run
  issued,            \* identifiers uuidv4 has handed out so far
  deletedOffline,    \* ids whose remote delete failed for lack of connectivity
  peerDB,            \* the local store of another device of the same user
  runs,              \* passes the engine specification has started
  events,            \* user and network events so far
  lastOp             \* the handler that took the last step

vars == <<now, currentUser, online, localDB, receipts, cloud,
          pendingDeletions, pass, op, drain, due, issued, deletedOffline,
          peerDB, runs, events, lastOp>>

\* the state of the handlers of AppContent other than the passes
appVars == <<op, drain, due, issued, deletedOffline, peerDB>>

\* n events are counted against the bound: a user action, a change of the
\* network, a clock tick, a call of the engine, and every fault (a write the
\* store rejects, an image that cannot be decoded)
Events(n) == events + n <= MaxEvents /\ events' = events + n
Event == Events(1)
fault(ok) == IF ok THEN 0 ELSE 1
\* new Date(): the clock has gone on by dt ms since it was last read
Elapsed == {0, 1}
newDate(dt) == now + dt
hasBig(r) == r.imageData = "big" \/ \E k \in DOMAIN r.additionalImages :
                                      r.additionalImages[k] = "big"

(***************************************************************************)
(* FirebaseService.syncLocalReceipts, one await at a time                  *)
(***************************************************************************)
\* the outcomes of a record that was written to the remote store
Written == {"saved", "savedMinimal", "updated"}

\* a pass that has not been called yet
IdlePass ==
  [pc |-> "idle", caller |-> "", given |-> <<>>, input |-> <<>>,
   aliased |-> {}, i |-> 0,
   cloudMap |-> EmptyMap, added |-> 0, updated |-> 0, conflicts |-> 0,
   outcome |-> <<>>, preLocal |-> EmptyMap, preCloud |-> EmptyMap,
   clean |-> TRUE, prevClean |-> FALSE, prevWrites |-> 0, after |-> {},
   fetchOk |-> TRUE, tries |-> <<>>]

\* a remote write goes through when a user is signed in (the auth check of
\* saveReceipt / updateReceipt / deleteReceipt), Firestore is reachable and
\* Firestore accepts the document
RemoteWriteOk(accepted) == currentUser # NoUser /\ online /\ accepted

\* getAllReceipts: the documents of the signed-in user converted back to
\* receipts; an empty list without a user and on any read error
getAllReceipts ==
  IF currentUser = NoUser \/ ~online THEN EmptyMap
  ELSE LET own == {k \in DOMAIN cloud : cloud[k].userId = currentUser}
       IN [k \in own |-> convertDatesFrom(cloud[k])]

\* the caller's continuation: syncToCloud only logs the result of the
\* call, the other callers keep it
returned(ps) ==
  [p \in DOMAIN ps |->
     IF ps[p].pc = "done" /\ ps[p].caller = "syncToCloud" THEN IdlePass ELSE ps[p]]

\* the call itself: the auth check, the counters, then the probe is awaited
syncLocalReceipts(p, caller, localReceipts, sharedWithList) ==
  /\ pass' = returned([pass EXCEPT ![p] =
       [IdlePass EXCEPT
          !.pc = IF currentUser = NoUser THEN "done" ELSE "probe",
          !.caller = caller,
          !.given = localReceipts, !.input = localReceipts,
          !.aliased = IF sharedWithList
                      THEN {localReceipts[k].id : k \in DOMAIN localReceipts}
                      ELSE {},
          !.outcome = [k \in DOMAIN localReceipts |-> "none"],
          !.tries = [k \in DOMAIN localReceipts |-> 0],
          !.preLocal = localDB, !.preCloud = cloud,
          !.clean = (currentUser # NoUser),
          !.prevClean = (pass[p].pc = "done" /\ pass[p].clean),
          !.prevWrites = Cardinality({k \in DOMAIN pass[p].outcome :
                            pass[p].outcome[k] \in Written}),
          !.after = {q \in Slots : pass[q].pc = "done" /\ pass[q].clean}]])

\* a faulty variant: the pass goes on whatever the probe says
afterProbeAlwaysFetch(isOnline) == "fetch"
\* if (!isOnline) return { added: 0, updated: 0, conflicts: 0 }
afterProbe(isOnline) == IF isOnline THEN "fetch" ELSE "done"

\* testConnectivity: offline ends the pass with all-zero counts
SyncProbe(p) ==
  /\ pass[p].pc = "probe"
  /\ pass' = returned([pass EXCEPT ![p].pc = afterProbe(online),
                          ![p].clean = online])
  /\ lastOp' = "syncLocalReceipts"
  /\ UNCHANGED <<now, currentUser, online, localDB, receipts, cloud,
                 pendingDeletions, runs, appVars, events>>

\* the for loop goes on while i is within the array; after the last record
\* { added, updated, conflicts } is returned without a further await
loopOrReturn(p, i) == IF i <= Len(pass[p].input) THEN "loop" ELSE "done"

\* the remote set is fetched and keyed by identifier
SyncFetch(p) ==
  /\ pass[p].pc = "fetch"
  /\ pass' = returned([pass EXCEPT ![p].pc = loopOrReturn(p, 1), ![p].i = 1,
                          ![p].cloudMap = getAllReceipts,
                          ![p].fetchOk = (currentUser # NoUser /\ online),
                          ![p].clean = (currentUser # NoUser /\ online)])
  /\ lastOp' = "syncLocalReceipts"
  /\ UNCHANGED <<now, currentUser, online, localDB, receipts, cloud,
                 pendingDeletions, runs, appVars, events>>

\* line 719 reads hasMainImage and additionalImageCount, which are declared
\* with const inside the inner try block (681-682) and are out of scope
\* there: the template string throws a ReferenceError, which the catch of
\* line 721 swallows, so the added++ of line 720 is never reached
imageStatusLogThrows == TRUE

\* a faulty variant: both added++ are reached after a successful retry
addedByNewBranchBoth(fullOk, minimalOk) ==
  IF fullOk THEN 1 ELSE IF minimalOk THEN 2 ELSE 0
\* what the new-record branch adds to 'added'
addedByNewBranch(fullOk, minimalOk) ==
  IF fullOk THEN (IF imageStatusLogThrows THEN 0 ELSE 1)
  ELSE IF minimalOk THEN 1 + (IF imageStatusLogThrows THEN 0 ELSE 1)
  ELSE 0

\* a faulty variant: the local copy is written whenever the timestamps differ
classifyLocalWins(r, cloudMap) ==
  IF r.id \notin DOMAIN cloudMap THEN "new"
  ELSE IF r.updatedAt # cloudMap[r.id].updatedAt THEN "update"
  ELSE "tie"
\* a faulty variant: on equal timestamps the local copy is written
classifyTieAsUpdate(r, cloudMap) ==
  IF r.id \notin DOMAIN cloudMap THEN "new"
  ELSE IF r.updatedAt >= cloudMap[r.id].updatedAt THEN "update"
  ELSE "conflict"
\* how a local record compares with the fetched remote map
classify(r, cloudMap) ==
  IF r.id \notin DOMAIN cloudMap THEN "new"
  ELSE IF r.updatedAt > cloudMap[r.id].updatedAt THEN "update"
  ELSE IF r.updatedAt < cloudMap[r.id].updatedAt THEN "conflict"
  ELSE "tie"

\* an in-place change of a record of the array is seen through the
\* in-memory list while the list still holds the same object
shared(p, id) == id \in pass[p].aliased /\ id \in DOMAIN receipts
throughList(p, id, changed) ==
  IF shared(p, id) THEN [receipts EXCEPT ![id] = changed] ELSE receipts

\* the new-record branch for input[i]
SyncNew(p) ==
  LET r == pass[p].input[pass[p].i]
      entered == currentUser # NoUser
  IN \E decodes \in BOOLEAN, acceptFull \in BOOLEAN, acceptMinimal \in BOOLEAN :
       LET fullOk == RemoteWriteOk(acceptFull)
           minimalOk == ~fullOk /\ RemoteWriteOk(acceptMinimal)
           reaches == entered /\ online
           \* saveReceipt prepares additionalImages[i] in the array it
           \* shares with the caller's record
           prep(x) == IF entered
                      THEN [x EXCEPT !.additionalImages =
                              prepareAll(x.additionalImages, decodes)]
                      ELSE x
       IN /\ cloud' =
               IF fullOk
               THEN Put(cloud, saveReceiptId(r),
                        saveReceiptDoc(r, currentUser, decodes))
               ELSE IF minimalOk
               THEN Put(cloud, saveReceiptId(r),
                        saveReceiptDoc(minimalReceipt(r), currentUser, decodes))
               ELSE cloud
          /\ receipts' = throughList(p, r.id,
                            IF shared(p, r.id) THEN prep(receipts[r.id]) ELSE r)
          /\ pass' = returned([pass EXCEPT
                ![p].input[pass[p].i] = prep(r),
                ![p].added = @ + addedByNewBranch(fullOk, minimalOk),
                ![p].outcome[pass[p].i] =
                   IF fullOk THEN "saved"
                   ELSE IF minimalOk THEN "savedMinimal" ELSE "saveFailed",
                \* saveReceipt is called once, and once more after it threw
                ![p].tries[pass[p].i] = IF fullOk THEN 1 ELSE 2,
                ![p].clean = @ /\ fullOk,
                ![p].i = @ + 1, ![p].pc = loopOrReturn(p, pass[p].i + 1)])
          /\ (decodes \/ (entered /\ hasBig(r)))
          /\ (acceptFull \/ reaches)
          /\ (acceptMinimal \/ (reaches /\ ~acceptFull))
          /\ Events(fault(decodes) + fault(acceptFull) + fault(acceptMinimal))
          /\ UNCHANGED <<localDB, now>>

\* the local-newer branch for input[i]: updateReceipt
SyncUpdate(p) ==
  LET r == pass[p].input[pass[p].i]
      entered == currentUser # NoUser
  IN \E accept \in BOOLEAN, dt \in Elapsed :
       \* updateDoc fails on a document that does not exist
       LET ok == RemoteWriteOk(accept) /\ r.id \in DOMAIN cloud
           stamp(x) == IF entered
                       THEN [x EXCEPT !.updatedAt = updateReceiptStamp(x, newDate(dt))]
                       ELSE x
       IN /\ cloud' = IF ok
                      THEN Put(cloud, r.id,
                               updateReceiptDoc(r, currentUser, newDate(dt)))
                      ELSE cloud
          /\ now' = newDate(dt)
          /\ receipts' = throughList(p, r.id,
                            IF shared(p, r.id) THEN stamp(receipts[r.id]) ELSE r)
          /\ pass' = returned([pass EXCEPT
                ![p].input[pass[p].i] = stamp(r),
                ![p].updated = @ + (IF ok THEN 1 ELSE 0),
                ![p].outcome[pass[p].i] = IF ok THEN "updated" ELSE "updateFailed",
                \* updateReceipt is called once; its error is only logged
                ![p].tries[pass[p].i] = 1,
                ![p].clean = @ /\ ok,
                ![p].i = @ + 1, ![p].pc = loopOrReturn(p, pass[p].i + 1)])
          /\ (accept \/ (entered /\ online /\ r.id \in DOMAIN cloud))
          /\ (dt = 0 \/ entered)
          /\ Events(fault(accept) + dt)
          /\ UNCHANGED localDB


\* a faulty variant: the remote copy is pulled down
conflictLocalPull(db, remoteCopy) == Put(db, remoteCopy.id, remoteCopy)
\* what the remote-newer branch does to the local store: nothing, the
\* remote copy is not pulled down
conflictLocal(db, remoteCopy) == db

\* what the remote-newer branch adds to 'conflicts'
conflictCount(r) == 1

\* the remote-newer branch: counted, nothing written
SyncConflict(p) ==
  LET r == pass[p].input[pass[p].i]
  IN /\ pass' = returned([pass EXCEPT ![p].conflicts = @ + conflictCount(r),
                             ![p].outcome[pass[p].i] = "conflict",
                             ![p].i = @ + 1,
                             ![p].pc = loopOrReturn(p, pass[p].i + 1)])
     /\ localDB' = conflictLocal(localDB, pass[p].cloudMap[r.id])
     /\ UNCHANGED <<cloud, receipts, events, now>>

\* equal timestamps: nothing
SyncTie(p) ==
  /\ pass' = returned([pass EXCEPT ![p].outcome[pass[p].i] = "tie", ![p].i = @ + 1,
                          ![p].pc = loopOrReturn(p, pass[p].i + 1)])
  /\ UNCHANGED <<cloud, receipts, localDB, events, now>>

\* one iteration of the for loop over the local records
SyncRecord(p) ==
  /\ pass[p].pc = "loop"
  /\ LET c == classify(pass[p].input[pass[p].i], pass[p].cloudMap)
     IN CASE c = "new" -> SyncNew(p)
          [] c = "update" -> SyncUpdate(p)
          [] c = "conflict" -> SyncConflict(p)
          [] OTHER -> SyncTie(p)
  /\ lastOp' = "syncLocalReceipts"
  /\ UNCHANGED <<currentUser, online, pendingDeletions, runs, appVars>>

\* the value the call resolves to
result(p) ==
  [added |-> pass[p].added, updated |-> pass[p].updated,
   conflicts |-> pass[p].conflicts]

IdleOp == [kind |-> "none"]
IdleDrain == [pc |-> "idle", snapshot |-> <<>>, i |-> 0, successful |-> {}]

(***************************************************************************)
(* Environment                                                             *)
(***************************************************************************)
SetOnline ==
  /\ online' = ~online
  /\ Event
  /\ lastOp' = "network"
  /\ UNCHANGED <<now, currentUser, localDB, receipts, cloud,
                 pendingDeletions, pass, runs, appVars>>

(***************************************************************************)
(* The engine applied to the records of the local store                    *)
(***************************************************************************)
\* the records of the local store, as dbService.getAllReceipts returns them
localRecords == [k \in 1..Cardinality(DOMAIN localDB) |->
                   localDB[KeySeq(DOMAIN localDB)[k]]]

\* firebaseService.syncLocalReceipts(await dbService.getAllReceipts())
EngineCall ==
  /\ pass["auto"].pc \in {"idle", "done"}
  /\ runs' = runs + 1
  /\ syncLocalReceipts("auto", "engine", localRecords, FALSE)
  /\ Event
  /\ lastOp' = "syncLocalReceipts"
  /\ UNCHANGED <<now, currentUser, online, localDB, receipts, cloud,
                 pendingDeletions, appVars>>

\* record contents the initial stores are drawn from
LocalShapes ==
  { [core |-> "c1", extra |-> "undef", imageData |-> "", additionalImages |-> <<>>],
    [core |-> "c2", extra |-> "x", imageData |-> "big", additionalImages |-> <<"big">>] }
CloudShapes ==
  { [core |-> "c1", extra |-> "", imageData |-> "", additionalImages |-> <<>>],
    [core |-> "c2", extra |-> "x", imageData |-> "small", additionalImages |-> <<>>] }

LocalRecs(id, T) ==
  {Receipt(id, t, s.core, s.extra, s.imageData, s.additionalImages, NoUser) :
     t \in T, s \in LocalShapes}
CloudDocs(id, T) ==
  {convertDatesTo(Receipt(id, t, s.core, s.extra, s.imageData,
                          s.additionalImages, "u1")) :
     t \in T, s \in CloudShapes}

\* a store holding, for each identifier, nothing or one of the candidates
Stores(cands) ==
  UNION {[S -> UNION {cands[k] : k \in S}] : S \in SUBSET DOMAIN cands}

WellKeyed(m) == \A k \in DOMAIN m : m[k].id = k

InitEngine ==
  /\ now = StartTime
  /\ currentUser \in Users \cup {NoUser}
  /\ online = TRUE
  /\ localDB \in {m \in Stores([A |-> LocalRecs("A", {5, 10}),
                                 B |-> LocalRecs("B", {5})]) : WellKeyed(m)}
  /\ cloud \in {m \in Stores([A |-> CloudDocs("A", {5, 10}),
                               B |-> CloudDocs("B", {5}),
                               C |-> CloudDocs("C", {1})]) : WellKeyed(m)}
  /\ receipts = EmptyMap
  /\ pendingDeletions = <<>>
  /\ pass = [p \in Slots |-> IdlePass]
  /\ op = IdleOp
  /\ drain = IdleDrain
  /\ due = [load |-> FALSE, auto |-> FALSE, loaded |-> <<>>]
  /\ issued = Ids
  /\ deletedOffline = {}
  /\ peerDB = EmptyMap
  /\ runs = 0
  /\ events = 0
  /\ lastOp = "init"

NextEngine ==
  \/ EngineCall
  \/ SyncProbe("auto")
  \/ SyncFetch("auto")
  \/ SyncRecord("auto")
  \/ SetOnline

SpecEngine == InitEngine /\ [][NextEngine]_vars

(***************************************************************************)
(* Two devices of one user: each has its local store and runs the engine   *)
(* against the one remote store                                            *)
(***************************************************************************)
Devices == {"auto", "peer"}

\* the records of the local store of the other device
peerRecords == [k \in 1..Cardinality(DOMAIN peerDB) |->
                  peerDB[KeySeq(DOMAIN peerDB)[k]]]

\* the other device calls
\* firebaseService.syncLocalReceipts(await dbService.getAllReceipts())
PeerCall ==
  /\ pass["peer"].pc \in {"idle", "done"}
  /\ runs' = runs + 1
  /\ syncLocalReceipts("peer", "engine", peerRecords, FALSE)
  /\ Event
  /\ lastOp' = "syncLocalReceipts"
  /\ UNCHANGED <<now, currentUser, online, localDB, receipts, cloud,
                 pendingDeletions, appVars>>

\* the two devices hold different copies of receipt A; the remote store
\* holds no copy of it or a copy that is not newer than either
InitDevices ==
  /\ now = StartTime
  /\ currentUser = "u1"
  /\ online = TRUE
  /\ \E r \in LocalRecs("A", {5}) : localDB = Put(EmptyMap, "A", r)
  /\ \E r \in LocalRecs("A", {1, 10}) : peerDB = Put(EmptyMap, "A", r)
  /\ cloud \in {EmptyMap} \cup {Put(EmptyMap, "A", d) : d \in CloudDocs("A", {1})}
  /\ receipts = EmptyMap
  /\ pendingDeletions = <<>>
  /\ pass = [p \in Slots |-> IdlePass]
  /\ op = IdleOp
  /\ drain = IdleDrain
  /\ due = [load |-> FALSE, auto |-> FALSE, loaded |-> <<>>]
  /\ issued = Ids
  /\ deletedOffline = {}
  /\ runs = 0
  /\ events = 0
  /\ lastOp = "init"

NextDevices ==
  \/ EngineCall
  \/ PeerCall
  \/ \E p \in Devices : SyncProbe(p) \/ SyncFetch(p) \/ SyncRecord(p)
  \/ SetOnline

SpecDevices == InitDevices /\ [][NextDevices]_vars

(***************************************************************************)
(* AppContent: effects, the mutation handlers, the pending-deletion queue  *)
(***************************************************************************)
Range(q) == {q[k] : k \in DOMAIN q}
Unalias(ps, S) == [p \in Slots |-> [ps[p] EXCEPT !.aliased = @ \ S]]
ListOf(m) == [k \in 1..Cardinality(DOMAIN m) |-> m[KeySeq(DOMAIN m)[k]]]
Overlay(m, n) ==
  [k \in (DOMAIN m) \cup (DOMAIN n) |-> IF k \in DOMAIN n THEN n[k] ELSE m[k]]

\* the sync modal is open and cannot be closed while a manual pass runs:
\* nothing else on the page can be clicked
ModalBusy == pass["manual"].pc \in {"probe", "fetch", "loop", "done"}

\* the effect on [currentUser]: processPendingDeletions is called when a
\* user is signed in and reads the queue at once; an empty queue ends it
processPendingDeletions(user) ==
  IF user # NoUser /\ pendingDeletions # <<>>
  THEN [pc |-> "loop", snapshot |-> pendingDeletions, i |-> 1, successful |-> {}]
  ELSE IdleDrain

\* sign-in: both effects of AppContent depend on currentUser and run again
\* (one drain is in flight at a time)
SignIn ==
  /\ currentUser = NoUser
  /\ drain.pc = "idle"
  /\ \E u \in Users :
       /\ currentUser' = u
       /\ drain' = processPendingDeletions(u)
  /\ due' = [due EXCEPT !.load = TRUE]
  /\ Event
  /\ lastOp' = "signIn"
  /\ UNCHANGED <<now, online, localDB, receipts, cloud, pendingDeletions,
                 pass, op, issued, deletedOffline, peerDB, runs>>

\* sign-out: the effects run with no user, the drain effect does nothing
SignOut ==
  /\ currentUser # NoUser
  /\ ~ModalBusy
  /\ currentUser' = NoUser
  /\ due' = [due EXCEPT !.load = TRUE]
  /\ Event
  /\ lastOp' = "signOut"
  /\ UNCHANGED <<now, online, localDB, receipts, cloud, pendingDeletions,
                 pass, op, drain, issued, deletedOffline, peerDB, runs>>

\* the page is loaded again: what is in memory is gone, the stores, the
\* queue and the signed-in user persist, the effects run on mount
Reload ==
  /\ receipts' = EmptyMap
  /\ pass' = [p \in Slots |-> IdlePass]
  /\ op' = IdleOp
  /\ drain' = processPendingDeletions(currentUser)
  /\ due' = [load |-> TRUE, auto |-> FALSE, loaded |-> <<>>]
  /\ Event
  /\ lastOp' = "reload"
  /\ UNCHANGED <<now, currentUser, online, localDB, cloud, pendingDeletions,
                 issued, deletedOffline, peerDB, runs>>

\* handleSyncComplete(newReceipts): the list is replaced and every receipt
\* is written to the local store; nothing happens for an empty list
syncCompleteList(newReceipts) ==
  IF DOMAIN newReceipts # {} THEN newReceipts ELSE receipts
syncCompleteLocal(newReceipts) == Overlay(localDB, newReceipts)

\* loadReceipts: local records first, then the cloud records of the user
\* on top of them, written back to the local store; with no cloud record
\* and auto-sync enabled the local records are scheduled for a pass
loadMerge(local, cloudReceipts) == Overlay(local, cloudReceipts)
LoadReceipts ==
  /\ due.load
  /\ LET cloudReceipts == IF currentUser # NoUser THEN getAllReceipts ELSE EmptyMap
         loaded == loadMerge(localDB, cloudReceipts)
     IN /\ localDB' = loaded
        /\ receipts' = loaded
        /\ pass' = Unalias(pass, Ids)
        /\ \E autoSyncEnabled \in BOOLEAN :
             due' = IF currentUser # NoUser /\ DOMAIN cloudReceipts = {}
                       /\ DOMAIN localDB # {} /\ autoSyncEnabled
                    THEN [due EXCEPT !.load = FALSE, !.auto = TRUE,
                                     !.loaded = ListOf(loaded)]
                    ELSE [due EXCEPT !.load = FALSE]
  /\ lastOp' = "load"
  /\ UNCHANGED <<now, currentUser, online, cloud, pendingDeletions, op, drain,
                 issued, deletedOffline, peerDB, runs, events>>

\* setTimeout(() => syncToCloud(), 100): the pass over the loaded records,
\* which are the objects of the in-memory list
SyncToCloud ==
  /\ due.auto
  /\ pass["auto"].pc \in {"idle", "done"}
  /\ syncLocalReceipts("auto", "syncToCloud", due.loaded, TRUE)
  /\ due' = [due EXCEPT !.auto = FALSE, !.loaded = <<>>]
  /\ lastOp' = "syncLocalReceipts"
  /\ UNCHANGED <<now, currentUser, online, localDB, receipts, cloud,
                 pendingDeletions, op, drain, issued, deletedOffline, peerDB, runs, events>>

\* what a scan produces: the extracted fields and the captured images
ScannedShapes ==
  { [core |-> "c1", extra |-> "x", imageData |-> "big", additionalImages |-> <<"big">>] }

\* the user of the render in which a handler was created: the handlers test
\* this value, the services test auth.currentUser when they run
closureUser == currentUser

\* a faulty variant: the remote half runs also after a failed local half
afterLocalAlways(localOk, started) == started
\* the remote half of a handler runs only when the local half did not throw
afterLocal(localOk, started) == IF localOk THEN started ELSE IdleOp

\* handleAddReceipt, first half: the local write
AddLocal ==
  /\ op.kind = "none"
  /\ ~ModalBusy
  /\ ~due.load
  /\ issued # Ids
  /\ LET id == KeySeq(Ids \ issued)[1]
     IN \E s \in ScannedShapes, localOk \in BOOLEAN, dt \in Elapsed :
          LET r == Receipt(id, newDate(dt), s.core, s.extra, s.imageData,
                           s.additionalImages, NoUser)
          IN /\ issued' = issued \cup {id}
             /\ localDB' = IF localOk THEN Put(localDB, id, r) ELSE localDB
             /\ op' = afterLocal(localOk,
                        [kind |-> "add", rec |-> r, user |-> closureUser])
             /\ now' = newDate(dt)
             /\ Events(1 + fault(localOk) + dt)
             /\ lastOp' = IF localOk THEN "add" ELSE "addFailed"
  /\ UNCHANGED <<currentUser, online, receipts, cloud, pendingDeletions,
                 pass, drain, due, deletedOffline, peerDB, runs>>

\* handleAddReceipt, second half: the best-effort remote write, then the
\* receipt joins the in-memory list
AddRemote ==
  /\ op.kind = "add"
  /\ \E decodes \in BOOLEAN, accept \in BOOLEAN :
       LET r == op.rec
           attempted == op.user # NoUser
           entered == attempted /\ currentUser # NoUser
           shown == IF entered
                    THEN [r EXCEPT !.additionalImages =
                            prepareAll(r.additionalImages, decodes)]
                    ELSE r
       IN /\ cloud' = IF attempted /\ RemoteWriteOk(accept)
                      THEN Put(cloud, saveReceiptId(r),
                               saveReceiptDoc(r, currentUser, decodes))
                      ELSE cloud
          /\ receipts' = Put(receipts, r.id, shown)
          /\ (decodes \/ (entered /\ hasBig(r)))
          /\ (accept \/ (entered /\ online))
          /\ Events(fault(decodes) + fault(accept))
  /\ op' = IdleOp
  /\ lastOp' = "add"
  /\ UNCHANGED <<now, currentUser, online, localDB, pendingDeletions, pass,
                 drain, due, issued, deletedOffline, peerDB, runs>>

\* handleUpdateReceipt, first half: dbService.updateReceipt stamps the
\* record with the clock and writes it to the local store
UpdateLocal ==
  /\ op.kind = "none"
  /\ ~ModalBusy
  /\ ~due.load
  /\ \E id \in DOMAIN receipts, localOk \in BOOLEAN, dt \in Elapsed :
       LET edited == [receipts[id] EXCEPT
                        !.core = IF @ = "c1" THEN "c2" ELSE "c1",
                        !.updatedAt = newDate(dt)]
       IN /\ localDB' = IF localOk THEN Put(localDB, id, edited) ELSE localDB
          /\ op' = afterLocal(localOk,
                     [kind |-> "update", rec |-> edited, user |-> closureUser])
          /\ now' = newDate(dt)
          /\ Events(1 + fault(localOk) + dt)
          /\ lastOp' = IF localOk THEN "update" ELSE "updateFailed"
  /\ UNCHANGED <<currentUser, online, receipts, cloud, pendingDeletions,
                 pass, drain, due, issued, deletedOffline, peerDB, runs>>

\* handleUpdateReceipt, second half: firebaseService.updateReceipt stamps
\* the same object again and updates the document, then the list entry is
\* replaced
UpdateRemote ==
  /\ op.kind = "update"
  /\ \E accept \in BOOLEAN, dt \in Elapsed :
       LET r == op.rec
           attempted == op.user # NoUser
           entered == attempted /\ currentUser # NoUser
           shown == IF entered
                    THEN [r EXCEPT !.updatedAt = updateReceiptStamp(r, newDate(dt))]
                    ELSE r
           ok == attempted /\ RemoteWriteOk(accept) /\ r.id \in DOMAIN cloud
       IN /\ cloud' = IF ok
                      THEN Put(cloud, r.id,
                               updateReceiptDoc(r, currentUser, newDate(dt)))
                      ELSE cloud
          /\ now' = newDate(dt)
          /\ (dt = 0 \/ entered)
          /\ receipts' = IF r.id \in DOMAIN receipts
                         THEN Put(receipts, r.id, shown) ELSE receipts
          /\ pass' = Unalias(pass, {r.id})
          /\ (accept \/ (entered /\ online /\ r.id \in DOMAIN cloud))
          /\ Events(fault(accept) + dt)
  /\ op' = IdleOp
  /\ lastOp' = "update"
  /\ UNCHANGED <<currentUser, online, localDB, pendingDeletions, drain,
                 due, issued, deletedOffline, peerDB, runs>>

\* what getReceipt returns when the document does not exist
null == Receipt("", 0, "", "", "", <<>>, NoUser)

\* FirebaseService.getReceipt: the document with this identifier, whoever
\* owns it; null when there is no such document
getReceipt(id) ==
  IF id \in DOMAIN cloud THEN convertDatesFrom(cloud[id]) ELSE null

\* EnhancedReceiptDetail.fetchReceipt: the page of a receipt shows the
\* receipt of the list, or else, for a signed-in user, the one getReceipt
\* returns
Viewable ==
  DOMAIN receipts \cup
    (IF currentUser # NoUser /\ online
     THEN {id \in Ids : getReceipt(id) # null} ELSE {})

\* handleDeleteReceipt, first half: the receipt is looked up in the list
\* ('Receipt not found' ends the handler), deleted from the local store and
\* taken off the list
DeleteLocal ==
  /\ op.kind = "none"
  /\ ~ModalBusy
  /\ ~due.load
  /\ \E id \in Viewable, localOk \in BOOLEAN :
       LET found == id \in DOMAIN receipts
           deleted == found /\ localOk
       IN /\ localDB' = IF deleted THEN Del(localDB, id) ELSE localDB
          /\ receipts' = IF deleted THEN Del(receipts, id) ELSE receipts
          /\ pass' = IF deleted THEN Unalias(pass, {id}) ELSE pass
          /\ op' = IF found
                   THEN afterLocal(localOk,
                          [kind |-> "delete", id |-> id, user |-> closureUser])
                   ELSE [kind |-> "none", id |-> id, outcome |-> "notFound",
                         queued |-> id \in Range(pendingDeletions)]
          /\ (localOk \/ found)
          /\ Events(1 + fault(localOk))
          /\ lastOp' = IF deleted THEN "delete"
                       ELSE IF found THEN "deleteFailed" ELSE "deleteNotFound"
  /\ UNCHANGED <<now, currentUser, online, cloud, pendingDeletions, drain,
                 due, issued, deletedOffline, peerDB, runs>>

\* FirebaseService.deleteReceipt: "auth" without a user, "connectivity"
\* when the probe fails, "rejected" when deleteDoc throws, "ok" otherwise
deleteReceiptOutcome(accept) ==
  IF currentUser = NoUser THEN "auth"
  ELSE IF ~online THEN "connectivity"
  ELSE IF ~accept THEN "rejected"
  ELSE "ok"

\* a faulty variant: the id is queued only when the user is warned
shouldEnqueueWhenWarned(outcome) == outcome \notin {"ok", "connectivity"}
\* a faulty variant: the id is queued only for lack of connectivity
shouldEnqueueOffline(outcome) == outcome = "connectivity"
\* the catch block of handleDeleteReceipt queues the id whatever the error
shouldEnqueue(outcome) == outcome # "ok"

\* a faulty variant: the id is pushed without looking
enqueueAlways(q, id) == Append(q, id)
\* pendingDeletions.includes(id) guards the push
enqueue(q, id) == IF id \in Range(q) THEN q ELSE Append(q, id)

\* handleDeleteReceipt, second half: the best-effort remote delete; how it
\* ended is kept with the finished handler
DeleteRemote ==
  /\ op.kind = "delete"
  /\ \E accept \in BOOLEAN :
       LET attempted == op.user # NoUser
           outcome == IF attempted THEN deleteReceiptOutcome(accept)
                      ELSE "skipped"
       IN /\ cloud' = IF outcome = "ok" THEN Del(cloud, op.id) ELSE cloud
          /\ pendingDeletions' =
               IF attempted /\ shouldEnqueue(outcome)
               THEN enqueue(pendingDeletions, op.id) ELSE pendingDeletions
          /\ deletedOffline' =
               IF outcome = "connectivity"
               THEN deletedOffline \cup {op.id} ELSE deletedOffline
          /\ op' = [kind |-> "none", id |-> op.id, outcome |-> outcome,
                    queued |-> op.id \in Range(pendingDeletions)]
          /\ (accept \/ (attempted /\ currentUser # NoUser /\ online))
          /\ Events(fault(accept))
  /\ lastOp' = "delete"
  /\ UNCHANGED <<now, currentUser, online, localDB, receipts, pass, drain,
                 due, issued, peerDB, runs>>

\* one iteration: the remote delete of snapshot[i]
DrainStep ==
  /\ drain.pc = "loop"
  /\ drain.i <= Len(drain.snapshot)
  /\ \E accept \in BOOLEAN :
       LET id == drain.snapshot[drain.i]
           ok == deleteReceiptOutcome(accept) = "ok"
       IN /\ cloud' = IF ok THEN Del(cloud, id) ELSE cloud
          /\ drain' = [drain EXCEPT !.i = @ + 1,
                         !.successful = IF ok THEN @ \cup {id} ELSE @]
          /\ (accept \/ (currentUser # NoUser /\ online))
          /\ Events(fault(accept))
  /\ lastOp' = "drain"
  /\ UNCHANGED <<now, currentUser, online, localDB, receipts,
                 pendingDeletions, pass, op, due, issued, deletedOffline, peerDB, runs>>

\* a faulty variant: the queue is written back as it was read
remainingDeletionsAll(snapshot, successful) == snapshot
\* what is written back: the queue as read, without the successful ids
remainingDeletions(snapshot, successful) ==
  SelectSeq(snapshot, LAMBDA x : x \notin successful)

\* after the loop: the remaining ids are written back when any succeeded
DrainFinish ==
  /\ drain.pc = "loop"
  /\ drain.i > Len(drain.snapshot)
  /\ pendingDeletions' =
       IF drain.successful # {}
       THEN remainingDeletions(drain.snapshot, drain.successful)
       ELSE pendingDeletions
  /\ drain' = [drain EXCEPT !.pc = "idle"]
  /\ lastOp' = "drainFinish"
  /\ UNCHANGED <<now, currentUser, online, localDB, receipts, cloud, pass,
                 op, due, issued, deletedOffline, peerDB, runs, events>>

(***************************************************************************)
(* SettingsPage: Sync Now, Force Upload All, Force Download All            *)
(***************************************************************************)
\* handleSyncWithCloud up to the call of syncLocalReceipts(receipts)
ManualSync ==
  /\ currentUser # NoUser
  /\ ~ModalBusy
  /\ ~due.load
  /\ syncLocalReceipts("manual", "handleSyncWithCloud", ListOf(receipts), TRUE)
  /\ Event
  /\ lastOp' = "syncLocalReceipts"
  /\ UNCHANGED <<now, currentUser, online, localDB, receipts, cloud,
                 pendingDeletions, appVars, runs>>

\* handleSyncWithCloud after the pass: the cloud receipts are fetched again
\* and handed to onSyncComplete
ManualComplete ==
  /\ pass["manual"].pc = "done"
  /\ LET updatedCloudReceipts == getAllReceipts
     IN /\ receipts' = syncCompleteList(updatedCloudReceipts)
        /\ localDB' = syncCompleteLocal(updatedCloudReceipts)
        /\ pass' = [Unalias(pass, IF DOMAIN updatedCloudReceipts # {}
                                  THEN Ids ELSE {})
                      EXCEPT !["manual"] = IdlePass]
  /\ lastOp' = "syncComplete"
  /\ UNCHANGED <<now, currentUser, online, cloud, pendingDeletions, appVars,
                 runs, events>>

\* Force Upload All: every receipt of the list is saved to the cloud, a
\* failed save does not stop the loop; then the cloud receipts are fetched
\* and handed to onSyncComplete
RECURSIVE uploadAll(_, _, _, _)
uploadAll(list, accepted, decodes, c) ==
  IF list = <<>> THEN c
  ELSE LET r == Head(list)
       IN uploadAll(Tail(list), accepted, decodes,
            IF RemoteWriteOk(r.id \in accepted)
            THEN Put(c, saveReceiptId(r), saveReceiptDoc(r, currentUser, decodes))
            ELSE c)

ForceUpload ==
  /\ currentUser # NoUser
  /\ ~ModalBusy
  /\ ~due.load
  /\ DOMAIN receipts # {}
  /\ \E accepted \in SUBSET DOMAIN receipts, decodes \in BOOLEAN :
       LET uploaded == uploadAll(ListOf(receipts), accepted, decodes, cloud)
           prepared == [k \in DOMAIN receipts |->
                          [receipts[k] EXCEPT !.additionalImages =
                             prepareAll(@, decodes)]]
           cloudReceipts ==
             IF ~online THEN EmptyMap
             ELSE [k \in {x \in DOMAIN uploaded : uploaded[x].userId = currentUser}
                     |-> convertDatesFrom(uploaded[k])]
       IN /\ cloud' = uploaded
          /\ receipts' = IF DOMAIN cloudReceipts # {} THEN cloudReceipts ELSE prepared
          /\ localDB' = Overlay(localDB, cloudReceipts)
          /\ (decodes \/ \E k \in DOMAIN receipts : hasBig(receipts[k]))
          /\ (accepted = DOMAIN receipts \/ online)
          /\ Events(1 + fault(decodes)
                      + Cardinality(DOMAIN receipts \ accepted))
  /\ pass' = Unalias(pass, Ids)
  /\ lastOp' = "forceUpload"
  /\ UNCHANGED <<now, currentUser, online, pendingDeletions, appVars, runs>>

\* Force Download All: every cloud receipt is written to the local store,
\* then the list is handed to onSyncComplete
ForceDownload ==
  /\ currentUser # NoUser
  /\ ~ModalBusy
  /\ ~due.load
  /\ LET cloudReceipts == getAllReceipts
     IN /\ localDB' = Overlay(localDB, cloudReceipts)
        /\ receipts' = syncCompleteList(cloudReceipts)
        /\ pass' = Unalias(pass, IF DOMAIN cloudReceipts # {} THEN Ids ELSE {})
  /\ Event
  /\ lastOp' = "forceDownload"
  /\ UNCHANGED <<now, currentUser, online, cloud, pendingDeletions, appVars,
                 runs>>

(***************************************************************************)
(* The application                                                         *)
(***************************************************************************)
\* a document of the remote store
CloudDoc(id, t, uid) == convertDatesTo(Receipt(id, t, "c2", "", "", <<>>, uid))

\* what the earlier sessions left behind.  The local store holds receipt A.
\* The remote store holds no copy of it, an older copy or a newer copy; or
\* (a browser two users share) a receipt A of another user and a receipt B
\* of this user; or only a receipt B that was deleted on this device while
\* its remote delete failed, so that B is in the pending-deletion queue.
Sessions ==
  {[cloud |-> EmptyMap, queue |-> <<>>]} \cup
  {[cloud |-> Put(EmptyMap, "A", CloudDoc("A", t, "u1")), queue |-> <<>>] :
     t \in {1, 10}} \cup
  {[cloud |-> Put(Put(EmptyMap, "A", CloudDoc("A", 10, "u2")),
                  "B", CloudDoc("B", 1, "u1")), queue |-> <<>>],
   [cloud |-> Put(EmptyMap, "B", CloudDoc("B", 1, "u1")), queue |-> <<"B">>]}

\* the app is opened by a signed-in user while Firestore is not reachable:
\* both effects of AppContent run on mount
Init ==
  /\ now = StartTime
  /\ currentUser \in Users
  /\ online = FALSE
  /\ localDB = Put(EmptyMap, "A", Receipt("A", 5, "c1", "undef", "", <<"big">>, NoUser))
  /\ \E session \in Sessions :
       /\ cloud = session.cloud
       /\ pendingDeletions = session.queue
       \* uuidv4 does not hand out an identifier a second time
       /\ issued = {"A", "C"} \cup DOMAIN session.cloud \cup Range(session.queue)
  /\ receipts = EmptyMap
  /\ pass = [p \in Slots |-> IdlePass]
  /\ op = IdleOp
  /\ drain = processPendingDeletions(currentUser)
  /\ due = [load |-> TRUE, auto |-> FALSE, loaded |-> <<>>]
  /\ deletedOffline = {}
  /\ peerDB = EmptyMap
  /\ runs = 0
  /\ events = 0
  /\ lastOp = "init"

Next ==
  \/ SignIn \/ SignOut \/ Reload
  \/ LoadReceipts \/ SyncToCloud
  \/ AddLocal \/ AddRemote
  \/ UpdateLocal \/ UpdateRemote
  \/ DeleteLocal \/ DeleteRemote
  \/ DrainStep \/ DrainFinish
  \/ ManualSync \/ ManualComplete
  \/ ForceUpload \/ ForceDownload
  \/ \E p \in Triggers : SyncProbe(p) \/ SyncFetch(p) \/ SyncRecord(p)
  \/ SetOnline

Spec == Init /\ [][Next]_vars

(***************************************************************************)
(* Properties of one reconciliation pass (SpecEngine)                      *)
(***************************************************************************)
Zero == [added |-> 0, updated |-> 0, conflicts |-> 0]
Done(p) == pass[p].pc = "done"
Indexes(p) == DOMAIN pass[p].given
Count(p, S) == Cardinality({k \in Indexes(p) : pass[p].outcome[k] \in S})

\* how the record given at index k compared with the fetched remote set
AbsentRemotely(p, k) == pass[p].given[k].id \notin DOMAIN pass[p].cloudMap
LocalNewer(p, k) ==
  /\ ~AbsentRemotely(p, k)
  /\ pass[p].given[k].updatedAt > pass[p].cloudMap[pass[p].given[k].id].updatedAt
RemoteNewer(p, k) ==
  /\ ~AbsentRemotely(p, k)
  /\ pass[p].given[k].updatedAt < pass[p].cloudMap[pass[p].given[k].id].updatedAt

\* the document that holds exactly the content of a local record
DocOf(r) == convertDatesTo(cleanReceiptForFirestore(r, currentUser))

\* equality of a remote document and a local record, the images compared
\* up to re-encoding
NormalizedFrom(stored, img) == stored = img \/ (img = "big" /\ stored = "packed")
EqualModuloImages(d, r) ==
  /\ [d EXCEPT !.imageData = "", !.additionalImages = <<>>]
       = [DocOf(r) EXCEPT !.imageData = "", !.additionalImages = <<>>]
  /\ NormalizedFrom(d.imageData, r.imageData)
  /\ Len(d.additionalImages) = Len(r.additionalImages)
  /\ \A k \in DOMAIN d.additionalImages :
        NormalizedFrom(d.additionalImages[k], r.additionalImages[k])

\* a second pass has returned, it followed a first pass at once, and every
\* step of both succeeded
SecondRun ==
  runs >= 2 /\ Done("auto") /\ pass["auto"].prevClean /\ pass["auto"].clean

\* C1 (as stated): a second pass, run right after a first pass and over the
\* unchanged local store, returns {added: 0, updated: 0, conflicts: 0}.
C1_SecondRunIsZero == SecondRun => result("auto") = Zero

\* C1 (as the code has it): a second pass, run right after a first pass and
\* over the unchanged local store, writes no record and returns added = 0 and
\* updated = 0; every record whose remote copy is newer is counted as a
\* conflict again.
C1_SecondRunWritesNothing ==
  SecondRun =>
    /\ Count("auto", Written) = 0
    /\ pass["auto"].added = 0
    /\ pass["auto"].updated = 0
    /\ pass["auto"].conflicts
         = Cardinality({k \in Indexes("auto") : RemoteNewer("auto", k)})

\* a second pass after a first pass that wrote records, with a conflict left
C1_SecondRunReached ==
  SecondRun /\ pass["auto"].prevWrites > 0 /\ pass["auto"].conflicts > 0

\* C2: after a pass, the remote copy of every local record that was newer
\* than its remote counterpart and whose write succeeded equals the local
\* copy, updatedAt included.
C2_RemoteEqualsLocal ==
  Done("auto") =>
    \A k \in Indexes("auto") :
      (LocalNewer("auto", k) /\ pass["auto"].outcome[k] = "updated")
        => LET id == pass["auto"].given[k].id
           IN id \in DOMAIN cloud /\ cloud[id] = DocOf(localDB[id])

\* C4: after a pass, every local record that was absent remotely and whose
\* write succeeded is present remotely and equal to the local record up to
\* image normalisation, and 'added' counts one for each of them.
C4_NewRecordPropagated ==
  Done("auto") =>
    /\ \A k \in Indexes("auto") :
         (AbsentRemotely("auto", k) /\ pass["auto"].outcome[k] = "saved")
           => LET id == pass["auto"].given[k].id
              IN id \in DOMAIN cloud /\ EqualModuloImages(cloud[id], localDB[id])
    /\ pass["auto"].added = Count("auto", {"saved", "savedMinimal"})

\* C6: when the write of exactly one of N >= 2 records fails, the pass still
\* visits every record and the returned added / updated counts are those of
\* the other N - 1 records.
C6_FailureIsolated ==
  (Done("auto") /\ pass["auto"].i > 0
     /\ Count("auto", {"saveFailed", "updateFailed"}) = 1
     /\ Len(pass["auto"].given) >= 2)
    => /\ Count("auto", {"none"}) = 0
       /\ pass["auto"].added = Count("auto", {"saved", "savedMinimal"})
       /\ pass["auto"].updated = Count("auto", {"updated"})

\* C7: local {A: 10, B: 5}, remote {A: 5, C: 1}: one pass in which every
\* step succeeds leaves remote A.updatedAt = 10, adds B to the remote,
\* leaves the local store without C and returns {1, 1, 0}.
ScenarioC7 ==
  /\ DOMAIN pass["auto"].preLocal = {"A", "B"}
  /\ pass["auto"].preLocal["A"].updatedAt = 10
  /\ pass["auto"].preLocal["B"].updatedAt = 5
  /\ DOMAIN pass["auto"].preCloud = {"A", "C"}
  /\ TimestampToDate(pass["auto"].preCloud["A"].updatedAt) = 5
  /\ TimestampToDate(pass["auto"].preCloud["C"].updatedAt) = 1
C7_Scenario ==
  (runs = 1 /\ Done("auto") /\ pass["auto"].clean /\ ScenarioC7)
    => /\ TimestampToDate(cloud["A"].updatedAt) = 10
       /\ "B" \in DOMAIN cloud
       /\ "C" \notin DOMAIN localDB
       /\ result("auto") = [added |-> 1, updated |-> 1, conflicts |-> 0]

\* C10: while a pass runs and after it, the set of local identifiers is the
\* one it started with, no remote record has been deleted, and every
\* identifier newly present in the remote store is the identifier of a
\* record the pass was given.
C10_NoIdentifierCreatedOrDestroyed ==
  pass["auto"].pc \in {"probe", "fetch", "loop", "done"} =>
    /\ DOMAIN localDB = DOMAIN pass["auto"].preLocal
    /\ DOMAIN pass["auto"].preCloud \subseteq DOMAIN cloud
    /\ (DOMAIN cloud) \ (DOMAIN pass["auto"].preCloud)
         \subseteq {pass["auto"].given[k].id : k \in Indexes("auto")}

\* a pass has returned after adding a record to the remote store
C10_RecordAdded ==
  /\ Done("auto")
  /\ (DOMAIN cloud) \ (DOMAIN pass["auto"].preCloud) # {}
  /\ DOMAIN pass["auto"].preCloud # {}

(***************************************************************************)
(* Properties of the application (Spec)                                    *)
(***************************************************************************)
\* the step is one iteration of pass p over a record whose remote copy is
\* newer
RemoteNewerStep(p) ==
  /\ pass[p].pc = "loop"
  /\ pass'[p] # pass[p]
  /\ lastOp' = "syncLocalReceipts"
  /\ RemoteNewer(p, pass[p].i)

DeleteRemoteStep == op.kind = "delete" /\ op'.kind = "none" /\ lastOp' = "delete"

C8_UpdatedAtNeverDecreases ==
  [][\A id \in Ids :
       /\ (id \in DOMAIN localDB /\ id \in DOMAIN localDB')
            => localDB'[id].updatedAt >= localDB[id].updatedAt
       /\ (id \in DOMAIN cloud /\ id \in DOMAIN cloud')
            => TimestampToDate(cloud'[id].updatedAt)
                 >= TimestampToDate(cloud[id].updatedAt)]_vars

\* the step creates or overwrites the local record id from its remote copy
PulledDown(id) ==
  /\ id \in DOMAIN localDB' /\ id \in DOMAIN cloud'
  /\ id \in DOMAIN localDB => localDB'[id] # localDB[id]
  /\ localDB'[id] = convertDatesFrom(cloud'[id])
  /\ lastOp' \notin {"add", "update", "delete"}

Facade == {"add", "update", "delete"}

\* the step is the local half of a handler of kind k that did not throw
LocalHalf(k) == op.kind = "none" /\ op'.kind = k /\ lastOp' = k
\* the step is the remote half of a handler of kind k
RemoteHalf(k) == op.kind = k /\ op'.kind = "none" /\ lastOp' = k

\* C11: for create, update and delete the local write is done before the
\* remote write is attempted (the local half leaves the remote store alone
\* and has written the local store; the remote store is written by the
\* remote half only), and a remote half whose write fails leaves the local
\* store as it is and the in-memory list with the record the local half
\* wrote (without the record, for a delete).
C11_LocalFirstNoRollback ==
  [][/\ \A k \in {"add", "update"} :
          LocalHalf(k) => /\ cloud' = cloud
                          /\ op'.rec.id \in DOMAIN localDB'
                          /\ localDB'[op'.rec.id] = op'.rec
     /\ LocalHalf("delete") => /\ cloud' = cloud
                               /\ op'.id \notin DOMAIN localDB'
     /\ (lastOp' \in Facade /\ cloud' # cloud) => op.kind \in Facade
     /\ \A k \in {"add", "update"} :
          (RemoteHalf(k) /\ cloud' = cloud)
            => /\ localDB' = localDB
               /\ op.rec.id \in DOMAIN receipts'
                    => receipts'[op.rec.id] = op.rec
     /\ (RemoteHalf("delete") /\ cloud' = cloud)
            => /\ localDB' = localDB
               /\ receipts' = receipts]_vars

\* the step is a handler whose local half threw
LocalHalfFailed ==
  lastOp' \in {"addFailed", "updateFailed", "deleteFailed"} /\ events' # events

\* C12: when the local half of a create, update or delete fails, the remote
\* store, the in-memory list, the pending-deletion queue and the local store
\* are as before and no remote half follows; a remote half starts only from
\* a local half that succeeded.
C12_LocalFailureMeansNothingHappened ==
  [][/\ LocalHalfFailed => /\ cloud' = cloud
                           /\ receipts' = receipts
                           /\ pendingDeletions' = pendingDeletions
                           /\ localDB' = localDB
                           /\ op'.kind = "none"
     /\ (op.kind = "none" /\ op'.kind \in Facade) => lastOp' = op'.kind]_vars

\* the local delete of a record that is in both stores has just failed
C12_LocalDeleteFailed ==
  /\ lastOp = "deleteFailed"
  /\ op.kind = "none"
  /\ "A" \in DOMAIN localDB /\ "A" \in DOMAIN receipts /\ "A" \in DOMAIN cloud
  /\ currentUser # NoUser
  /\ pendingDeletions = <<>>

\* the step is a call of handleDeleteReceipt(id) in which the local store
\* did not fail
DeleteRequested ==
  \/ LocalHalf("delete")
  \/ lastOp' = "deleteNotFound" /\ events' # events

\* C13: after handleDeleteReceipt(id) has passed its local half without a
\* local-store error, neither the local store nor the in-memory list holds
\* id, whatever the list held before.
C13_LocalDeleteUnconditional ==
  [][DeleteRequested => /\ op'.id \notin DOMAIN localDB'
                        /\ op'.id \notin DOMAIN receipts']_vars

\* how firebaseService.deleteReceipt can fail
DeleteFailures == {"auth", "connectivity", "rejected"}

\* a handleDeleteReceipt call has just finished, and how it ended
DeleteFinished(outcomes) ==
  /\ lastOp = "delete"
  /\ op.kind = "none"
  /\ "outcome" \in DOMAIN op
  /\ op.outcome \in outcomes

C15_RemovedOnlyAfterSuccess ==
  [][\A id \in Ids :
       (id \in Range(pendingDeletions) /\ id \notin Range(pendingDeletions'))
         => (lastOp' = "drainFinish" /\ id \in drain.successful)]_vars

NoDuplicates(q) == \A i, j \in DOMAIN q : q[i] = q[j] => i = j

\* C16: the pending-deletion queue never holds an identifier twice, and a
\* handleDeleteReceipt whose identifier is already in the queue leaves the
\* queue as it is.
C16_EnqueueIdempotent ==
  /\ []NoDuplicates(pendingDeletions)
  /\ [][(RemoteHalf("delete") /\ op.id \in Range(pendingDeletions))
          => pendingDeletions' = pendingDeletions]_vars

\* a record whose identifier was already in the queue has been deleted
\* again, its remote delete has failed again, and the queue holds it once
C16_EnqueuedTwice ==
  /\ DeleteFinished(DeleteFailures)
  /\ op.queued
  /\ Cardinality({k \in DOMAIN pendingDeletions : pendingDeletions[k] = op.id}) = 1

\* the call of syncLocalReceipts of slot p has not returned yet
InFlight(p) == pass[p].pc \in {"probe", "fetch", "loop"}

\* C17: on one device at most one reconciliation pass is in flight: the pass
\* of "Sync Now" and the auto-sync pass that loadReceipts schedules never
\* overlap.
C17_OnePassAtATime == ~(InFlight("manual") /\ InFlight("auto"))

\* C19: what a signed-in user reads from the remote store, with
\* getAllReceipts and with getReceipt(id), are records the user owns.
C19_ReadsOwnerScoped ==
  (currentUser # NoUser /\ online) =>
    /\ \A id \in DOMAIN getAllReceipts : getAllReceipts[id].userId = currentUser
    /\ \A id \in Ids :
         getReceipt(id) # null => getReceipt(id).userId = currentUser

\* the step is a Force Upload All started while no handler and no pass was
\* under way, and every write of it succeeded
ForcePushAllWritten ==
  /\ lastOp' = "forceUpload" /\ events' = events + 1 /\ online
  /\ op.kind = "none" /\ \A p \in Triggers : ~InFlight(p)

\* the records of the step's list that are in the remote store afterwards
\* with the content the list had
Pushed ==
  {id \in DOMAIN receipts :
     /\ id \in DOMAIN cloud'
     /\ cloud'[id].userId = currentUser
     /\ cloud'[id].core = receipts[id].core
     /\ TimestampToDate(cloud'[id].updatedAt) = receipts[id].updatedAt}

\* C20: after a Force Upload All in which every write succeeds, every record
\* of the local store has a remote copy that equals it, also where the
\* remote copy was newer; and with f failed writes all records but f are
\* written.
C20_ForcePushWritesEveryLocalRecord ==
  [][/\ ForcePushAllWritten =>
          \A id \in DOMAIN localDB :
            /\ id \in DOMAIN cloud'
            /\ cloud'[id] = DocOf(localDB'[id])
     /\ (lastOp' = "forceUpload" /\ events' # events /\ online) =>
          Cardinality(Pushed) + (events' - events - 1)
            >= Cardinality(DOMAIN receipts)]_vars

(***************************************************************************)
(* Properties of two devices (SpecDevices)                                 *)
(***************************************************************************)
\* the copy of receipt A with the greater updatedAt of the two devices
NewerCopy ==
  IF localDB["A"].updatedAt > peerDB["A"].updatedAt
  THEN localDB["A"] ELSE peerDB["A"]

\* the pass of device p has returned, every step of it succeeded, and it
\* was called after both devices had completed a pass with connectivity
LaterPass(p) == Done(p) /\ pass[p].clean /\ pass[p].after = Devices

\* C18: two devices hold different copies of receipt A and nothing else
\* changes them; once each device has run a pass with connectivity, the
\* remote store holds the copy with the greater updatedAt and every later
\* pass of either device returns {added: 0, updated: 0, conflicts: 0}.
C18_DevicesConverge ==
  \A p \in Devices :
    LaterPass(p) =>
      /\ "A" \in DOMAIN cloud
      /\ EqualModuloImages(cloud["A"], NewerCopy)
      /\ result(p) = Zero

(***************************************************************************)
(* Properties of the bulk overrides and of the error paths                 *)
(***************************************************************************)
\* the step is a Force Download All with the remote store reachable
ForcePull == lastOp' = "forceDownload" /\ online

\* C21: Force Download All leaves in the local store, for every remote
\* record of the caller, that remote record (overwriting the local copy or
\* creating it); a record that exists only locally stays in the local store
\* as it is and stays in the in-memory list.
C21_ForcePullKeepsLocalOnly ==
  [][ForcePull =>
       /\ \A id \in DOMAIN getAllReceipts :
            id \in DOMAIN localDB' /\ localDB'[id] = getAllReceipts[id]
       /\ \A id \in (DOMAIN localDB) \ (DOMAIN getAllReceipts) :
            /\ id \in DOMAIN localDB' /\ localDB'[id] = localDB[id]
            /\ id \in DOMAIN receipts => id \in DOMAIN receipts']_vars

\* the step is the call of syncLocalReceipts by the engine specification
CallStep == pass["auto"].pc \in {"idle", "done"} /\ runs' = runs + 1
\* the step is the probe of the pass
ProbeStep == pass["auto"].pc = "probe" /\ pass'["auto"] # pass["auto"]

\* C22: a call of syncLocalReceipts with no user signed in, and a pass whose
\* connectivity probe fails, return {added: 0, updated: 0, conflicts: 0}
\* (the call resolves, it does not raise) and have written nothing to the
\* remote store: the remote store is as it was when the call was made.
C22_ZeroWithoutUserOrConnectivity ==
  [][((CallStep /\ currentUser = NoUser) \/ (ProbeStep /\ ~online))
       => /\ pass'["auto"].pc = "done"
          /\ pass'["auto"].added = 0
          /\ pass'["auto"].updated = 0
          /\ pass'["auto"].conflicts = 0
          /\ cloud' = pass'["auto"].preCloud]_vars

\* a pass over local records that are absent remotely has returned after
\* its probe failed
C22_ProbeFailed ==
  /\ Done("auto") /\ pass["auto"].i = 0 /\ currentUser # NoUser /\ ~online
  /\ \E k \in Indexes("auto") : pass["auto"].given[k].id \notin DOMAIN cloud

\* the getDocs of getAllReceipts failed in this pass (getAllReceipts caught
\* the error and returned an empty list) after the probe had succeeded
FetchFailed(p) == pass[p].pc \in {"loop", "done"} /\ ~pass[p].fetchOk

\* C23: a pass whose fetch of the remote set fails after a successful probe
\* does no per-record work: it writes no receipt, the remote store stays as
\* it was when the pass was called.
C23_FailedFetchAbandons ==
  FetchFailed("auto") =>
    /\ Count("auto", Written) = 0
    /\ cloud = pass["auto"].preCloud

\* the outcomes of a record whose write with full content failed
FullWriteFailed == {"savedMinimal", "saveFailed", "updateFailed"}

\* C24: in a pass, every record whose write with full content failed, on
\* the new-record path and on the local-newer path, was written a second
\* time (the minimal version) and no more; and the step in which a minimal
\* retry succeeds adds exactly one to the counters.
C24_RetriedOnceWithMinimal ==
  [][\A p \in {"auto"} :
       (pass[p].pc = "loop" /\ pass'[p].pc \in {"loop", "done"}
          /\ pass'[p].i = pass[p].i + 1)
         => /\ pass'[p].outcome[pass[p].i] \in FullWriteFailed
                 => pass'[p].tries[pass[p].i] = 2
            /\ pass'[p].outcome[pass[p].i] = "savedMinimal"
                 => pass'[p].added + pass'[p].updated
                      = pass[p].added + pass[p].updated + 1]_vars

\* the step is one remote delete of the drain / the end of the drain
DrainDeleteStep == drain.pc = "loop" /\ lastOp' = "drain" /\ drain' # drain
DrainEnd == drain.pc = "loop" /\ drain'.pc = "idle" /\ lastOp' = "drainFinish"
\* the remote delete of the step went through: a user is signed in, the
\* remote store is reachable and deleteDoc did not throw
DrainDeleteOk == currentUser # NoUser /\ online /\ events' = events

\* C25: the drain takes the identifiers of the queue one after the other,
\* whether the remote delete of the one before failed or not, and records
\* as successful exactly those whose remote delete went through; when it
\* ends and no identifier was queued meanwhile, every identifier of the
\* queue has been tried and the queue is the queue as it was read, in the
\* same order, without the successful identifiers.
C25_DrainRemovesExactlySuccessful ==
  [][/\ DrainDeleteStep =>
          /\ drain'.pc = "loop" /\ drain'.i = drain.i + 1
          /\ drain'.snapshot = drain.snapshot
          /\ drain'.successful =
               drain.successful \cup
                 (IF DrainDeleteOk THEN {drain.snapshot[drain.i]} ELSE {})
          /\ DrainDeleteOk => drain.snapshot[drain.i] \notin DOMAIN cloud'
     /\ (DrainEnd /\ pendingDeletions = drain.snapshot) =>
          /\ drain.i = Len(drain.snapshot) + 1
          /\ pendingDeletions' =
               SelectSeq(drain.snapshot, LAMBDA x : x \notin drain.successful)]_vars

\* a drain over two identifiers has ended: the remote delete of the first
\* failed, that of the second succeeded, and only the first is still queued
C25_SecondDeletedAfterFirstFailed ==
  /\ lastOp = "drainFinish"
  /\ Len(drain.snapshot) = 2
  /\ drain.snapshot[1] \notin drain.successful
  /\ drain.snapshot[2] \in drain.successful
  /\ pendingDeletions = <<drain.snapshot[1]>>

\* the record given at index k and its fetched remote copy have the same
\* updatedAt
EqualStamps(p, k) ==
  /\ ~AbsentRemotely(p, k)
  /\ pass[p].given[k].updatedAt = pass[p].cloudMap[pass[p].given[k].id].updatedAt
\* the step is the iteration of the pass over such a record
TieStep(p) ==
  pass[p].pc = "loop" /\ pass'[p] # pass[p] /\ EqualStamps(p, pass[p].i)

\* C26: the iteration of a pass over a local record whose remote copy has
\* the same updatedAt, whatever the content of the two copies, writes
\* neither store and leaves added, updated and conflicts as they were.
C26_TieIsNoOp ==
  [][TieStep("auto") =>
       /\ cloud' = cloud
       /\ localDB' = localDB
       /\ pass'["auto"].added = pass["auto"].added
       /\ pass'["auto"].updated = pass["auto"].updated
       /\ pass'["auto"].conflicts = pass["auto"].conflicts]_vars

\* a pass has returned after it went over a record whose remote copy has the
\* same updatedAt and another content
C26_TieWithDivergentContent ==
  /\ Done("auto")
  /\ \E k \in Indexes("auto") :
       /\ EqualStamps("auto", k)
       /\ pass["auto"].outcome[k] = "tie"
       /\ pass["auto"].given[k].core
            # pass["auto"].cloudMap[pass["auto"].given[k].id].core
       /\ cloud[pass["auto"].given[k].id]
            = pass["auto"].preCloud[pass["auto"].given[k].id]

\* C27: while a pass runs and when it has returned, added + updated +
\* conflicts is at most the number of local records it was given, and added
\* is at most the number of them that are absent from the fetched remote
\* set, also when records were saved by the minimal retry.
C27_CountedAtMostOnce ==
  pass["auto"].pc \in {"loop", "done"} =>
    /\ pass["auto"].added + pass["auto"].updated + pass["auto"].conflicts
         <= Len(pass["auto"].given)
    /\ pass["auto"].added
         <= Cardinality({k \in Indexes("auto") : AbsentRemotely("auto", k)})

\* a pass over two records has returned: one was saved by the minimal retry,
\* and the counters add up to two
C27_MinimalRetryCounted ==
  /\ Done("auto")
  /\ Len(pass["auto"].given) = 2
  /\ Count("auto", {"savedMinimal"}) = 1
  /\ pass["auto"].added = 1
  /\ pass["auto"].added + pass["auto"].updated + pass["auto"].conflicts = 2

\* C29: when a pass has returned, every record of the array it was given
\* has the updatedAt, the primary image and the secondary images it had
\* when the pass was called, whichever branch the record took.
C29_GivenRecordsUnchanged ==
  Done("auto") =>
    \A k \in Indexes("auto") :
      /\ pass["auto"].input[k].updatedAt = pass["auto"].given[k].updatedAt
      /\ pass["auto"].input[k].imageData = pass["auto"].given[k].imageData
      /\ pass["auto"].input[k].additionalImages
           = pass["auto"].given[k].additionalImages

(***************************************************************************)
(* Properties across handlers (Spec)                                       *)
(***************************************************************************)
\* how the remote half of handleDeleteReceipt can end
DeleteOutcomes == {"ok", "auth", "connectivity", "rejected", "skipped"}
\* the identifier of the delete that has just been handled
JustDeleted ==
  IF op.kind = "none" /\ "outcome" \in DOMAIN op /\ op.outcome \in DeleteOutcomes
  THEN {op.id} ELSE {}
\* identifiers handleDeleteReceipt has removed from the local store: the one
\* just handled, those still queued for their remote delete, and those
\* whose remote delete failed for lack of connectivity
LocallyDeleted == JustDeleted \cup Range(pendingDeletions) \cup deletedOffline
\* identifiers whose remote delete went through, in the handler or in the
\* drain
RemotelyDeleted ==
  {id \in JustDeleted : op.outcome = "ok"} \cup drain.successful

\* C28: no step puts an identifier that handleDeleteReceipt removed back
\* into the local store, and none puts an identifier back into the remote
\* store after its remote delete (a user create makes a new identifier).
C28_DeletedStaysDeleted ==
  [][\A id \in Ids :
       /\ (id \in LocallyDeleted /\ id \notin DOMAIN localDB)
            => id \notin DOMAIN localDB'
       /\ (id \in RemotelyDeleted /\ id \notin DOMAIN cloud)
            => id \notin DOMAIN cloud']_vars

\* the step is the remote half of handleUpdateReceipt and its updateDoc
\* went through
UpdateMirrored == RemoteHalf("update") /\ cloud' # cloud

\* C30: when handleUpdateReceipt has written the local store and the remote
\* store, the copy of the record in the local store and its copy in the
\* remote store have the same updatedAt.
C30_UpdateLeavesEqualStamps ==
  [][UpdateMirrored =>
       /\ op.rec.id \in DOMAIN localDB' /\ op.rec.id \in DOMAIN cloud'
       /\ TimestampToDate(cloud'[op.rec.id].updatedAt)
            = localDB'[op.rec.id].updatedAt]_vars

====
